---- MODULE Spec2Model ----
(***************************************************************************)
(* The filter landing pages of generate_site.py: PAGE_TAGS, a table from   *)
(* page path to the list of audience categories, is inverted into one      *)
(* listing per category of FILTER_CATEGORIES; every listed page gets a     *)
(* title (fixed for the root, else derived from the path and replaced by   *)
(* the special-case table) and a URL under BASE_URL; the listing is sorted *)
(* by title.                                                               *)
(*                                                                         *)
(* A Python str is a sequence of one-character strings ("u2013" stands for *)
(* the en dash), so that strip, split, replace, title and the comparison   *)
(* of the sort are computed character by character.                        *)
(***************************************************************************)
EXTENDS Integers, Sequences, FiniteSets, TLC

VARIABLES
  PAGE_TAGS,          \* the tag index: <<[path, tags], ...>> in dict order
  FILTER_CATEGORIES,  \* the category table: <<[slug, title], ...>> in dict order
  TITLE_OVERRIDES,    \* the special-case titles: a function path -> title
  pages,              \* the static page list: the path of every entry
  outcome,            \* <<>> or <<o>>: what the last call of create_filter_landing_page did
  pc,                 \* where main is: "idle", "filters", "done"
  cat_i,              \* main: how many categories the second loop has handled
  written,            \* the file paths write_page was called with, in order
  filter_pages_count, \* main: the counter of the second loop
  filter_html         \* the cards of the filter pages main has written, in order

vars == <<PAGE_TAGS, FILTER_CATEGORIES, TITLE_OVERRIDES, pages, outcome, pc,
          cat_i, written, filter_pages_count, filter_html>>

config == <<PAGE_TAGS, FILTER_CATEGORIES, TITLE_OVERRIDES, pages>>

-----------------------------------------------------------------------------
(* Strings *)

\* The code point of every character the tables and the test inputs use
CodePoint ==
  (" " :> 32) @@ ("!" :> 33) @@ ("&" :> 38) @@ ("," :> 44) @@ ("-" :> 45) @@ ("." :> 46) @@ ("/" :> 47) @@
  ("0" :> 48) @@ ("1" :> 49) @@ ("2" :> 50) @@ ("3" :> 51) @@ ("4" :> 52) @@ ("5" :> 53) @@ ("6" :> 54) @@
  ("7" :> 55) @@ ("8" :> 56) @@ ("9" :> 57) @@ ("A" :> 65) @@ ("B" :> 66) @@ ("C" :> 67) @@ ("D" :> 68) @@
  ("E" :> 69) @@ ("F" :> 70) @@ ("G" :> 71) @@ ("H" :> 72) @@ ("I" :> 73) @@ ("J" :> 74) @@ ("K" :> 75) @@
  ("L" :> 76) @@ ("M" :> 77) @@ ("N" :> 78) @@ ("O" :> 79) @@ ("P" :> 80) @@ ("Q" :> 81) @@ ("R" :> 82) @@
  ("S" :> 83) @@ ("T" :> 84) @@ ("U" :> 85) @@ ("V" :> 86) @@ ("W" :> 87) @@ ("X" :> 88) @@ ("Y" :> 89) @@
  ("Z" :> 90) @@ ("_" :> 95) @@ ("a" :> 97) @@ ("b" :> 98) @@ ("c" :> 99) @@ ("d" :> 100) @@ ("e" :> 101) @@
  ("f" :> 102) @@ ("g" :> 103) @@ ("h" :> 104) @@ ("i" :> 105) @@ ("j" :> 106) @@ ("k" :> 107) @@ ("l" :> 108) @@
  ("m" :> 109) @@ ("n" :> 110) @@ ("o" :> 111) @@ ("p" :> 112) @@ ("q" :> 113) @@ ("r" :> 114) @@ ("s" :> 115) @@
  ("t" :> 116) @@ ("u" :> 117) @@ ("v" :> 118) @@ ("w" :> 119) @@ ("x" :> 120) @@ ("y" :> 121) @@ ("z" :> 122) @@
  ("u2013" :> 8211)

IsLower(c) == CodePoint[c] >= 97 /\ CodePoint[c] <= 122
IsUpper(c) == CodePoint[c] >= 65 /\ CodePoint[c] <= 90
IsCased(c) == IsLower(c) \/ IsUpper(c)

Chr(n) == CHOOSE c \in DOMAIN CodePoint : CodePoint[c] = n

\* str.upper and str.lower of one character
ToUpper(c) == IF IsLower(c) THEN Chr(CodePoint[c] - 32) ELSE c
ToLower(c) == IF IsUpper(c) THEN Chr(CodePoint[c] + 32) ELSE c

\* s < t on str: by code point, a proper prefix first
RECURSIVE StrLess(_, _)
StrLess(s, t) ==
  IF t = <<>> THEN FALSE
  ELSE IF s = <<>> THEN TRUE
  ELSE IF CodePoint[Head(s)] # CodePoint[Head(t)]
       THEN CodePoint[Head(s)] < CodePoint[Head(t)]
       ELSE StrLess(Tail(s), Tail(t))

\* s.strip(ch): ch removed from both ends
RECURSIVE LStrip(_, _)
LStrip(s, ch) ==
  IF s # <<>> /\ Head(s) = ch THEN LStrip(Tail(s), ch) ELSE s

RECURSIVE RStrip(_, _)
RStrip(s, ch) ==
  IF s # <<>> /\ s[Len(s)] = ch THEN RStrip(SubSeq(s, 1, Len(s) - 1), ch) ELSE s

Strip(s, ch) == RStrip(LStrip(s, ch), ch)

\* s.split(sep): the pieces between the separators, empty pieces kept;
\* a string without the separator is its own single piece
RECURSIVE Split(_, _)
Split(s, sep) ==
  IF \A i \in 1..Len(s) : s[i] # sep
  THEN <<s>>
  ELSE LET i == CHOOSE k \in 1..Len(s) :
                  s[k] = sep /\ \A m \in 1..(k - 1) : s[m] # sep
       IN  <<SubSeq(s, 1, i - 1)>> \o Split(SubSeq(s, i + 1, Len(s)), sep)

\* s.replace(old, new) for one-character old and new
Replace(s, old, new) == [i \in 1..Len(s) |-> IF s[i] = old THEN new ELSE s[i]]

\* s.title(): a cased character is upper-cased when the one before it is
\* not cased, and lower-cased when it is
Title(s) ==
  [i \in 1..Len(s) |->
     IF ~IsCased(s[i]) THEN s[i]
     ELSE IF i > 1 /\ IsCased(s[i - 1]) THEN ToLower(s[i]) ELSE ToUpper(s[i])]

-----------------------------------------------------------------------------
(* The tables of the source *)

\* BASE_URL = "/BCCN_website"
BASE_URL == <<"/","B","C","C","N","_","w","e","b","s","i","t","e">>

\* PAGE_TAGS as shipped: the dict in insertion order, each path with its tag list
ShippedPageTags ==
  << [path |-> <<"/">>,
      tags |-> <<<<"s","t","u","d","e","n","t","s">>, <<"f","a","c","u","l","t","y","-","a","n","d","-","s","t","a","f","f">>, <<"o","f","f","-","c","a","m","p","u","s","-","p","a","r","t","n","e","r","s">>, <<"m","e","d","i","a">>, <<"f","u","n","d","e","r","s","-","a","n","d","-","i","n","v","e","s","t","o","r","s">>>>],
     [path |-> <<"/","a","b","o","u","t","/">>,
      tags |-> <<<<"s","t","u","d","e","n","t","s">>, <<"f","a","c","u","l","t","y","-","a","n","d","-","s","t","a","f","f">>, <<"o","f","f","-","c","a","m","p","u","s","-","p","a","r","t","n","e","r","s">>, <<"m","e","d","i","a">>, <<"f","u","n","d","e","r","s","-","a","n","d","-","i","n","v","e","s","t","o","r","s">>>>],
     [path |-> <<"/","s","t","u","d","e","n","t","s","/">>,
      tags |-> <<<<"s","t","u","d","e","n","t","s">>>>],
     [path |-> <<"/","s","t","u","d","e","n","t","s","/","c","l","i","m","a","t","e","-","c","l","a","s","s","e","s","/">>,
      tags |-> <<<<"s","t","u","d","e","n","t","s">>, <<"f","a","c","u","l","t","y","-","a","n","d","-","s","t","a","f","f">>>>],
     [path |-> <<"/","s","t","u","d","e","n","t","s","/","i","n","t","e","r","n","s","h","i","p","s","-","a","n","d","-","j","o","b","s","/">>,
      tags |-> <<<<"s","t","u","d","e","n","t","s">>, <<"o","f","f","-","c","a","m","p","u","s","-","p","a","r","t","n","e","r","s">>>>],
     [path |-> <<"/","s","t","u","d","e","n","t","s","/","c","l","u","b","s","-","a","n","d","-","o","r","g","a","n","i","z","a","t","i","o","n","s","/">>,
      tags |-> <<<<"s","t","u","d","e","n","t","s">>>>],
     [path |-> <<"/","s","t","u","d","e","n","t","s","/","h","o","t","-","t","o","p","i","c","s","/">>,
      tags |-> <<<<"s","t","u","d","e","n","t","s">>, <<"m","e","d","i","a">>>>],
     [path |-> <<"/","f","a","c","u","l","t","y","-","a","n","d","-","s","t","a","f","f","/">>,
      tags |-> <<<<"f","a","c","u","l","t","y","-","a","n","d","-","s","t","a","f","f">>>>],
     [path |-> <<"/","f","a","c","u","l","t","y","-","a","n","d","-","s","t","a","f","f","/","p","e","o","p","l","e","-","p","r","o","j","e","c","t","s","-","a","n","d","-","p","r","o","g","r","a","m","s","/">>,
      tags |-> <<<<"f","a","c","u","l","t","y","-","a","n","d","-","s","t","a","f","f">>, <<"o","f","f","-","c","a","m","p","u","s","-","p","a","r","t","n","e","r","s">>, <<"f","u","n","d","e","r","s","-","a","n","d","-","i","n","v","e","s","t","o","r","s">>>>],
     [path |-> <<"/","f","a","c","u","l","t","y","-","a","n","d","-","s","t","a","f","f","/","f","i","n","a","n","c","i","a","l","-","s","u","p","p","o","r","t","/">>,
      tags |-> <<<<"f","a","c","u","l","t","y","-","a","n","d","-","s","t","a","f","f">>, <<"f","u","n","d","e","r","s","-","a","n","d","-","i","n","v","e","s","t","o","r","s">>>>],
     [path |-> <<"/","f","a","c","u","l","t","y","-","a","n","d","-","s","t","a","f","f","/","h","o","t","-","t","o","p","i","c","s","/">>,
      tags |-> <<<<"f","a","c","u","l","t","y","-","a","n","d","-","s","t","a","f","f">>, <<"m","e","d","i","a">>>>],
     [path |-> <<"/","f","a","c","u","l","t","y","-","a","n","d","-","s","t","a","f","f","/","f","i","n","d","-","h","e","l","p","/">>,
      tags |-> <<<<"f","a","c","u","l","t","y","-","a","n","d","-","s","t","a","f","f">>, <<"s","t","u","d","e","n","t","s">>, <<"o","f","f","-","c","a","m","p","u","s","-","p","a","r","t","n","e","r","s">>>>],
     [path |-> <<"/","b","c","c","n","-","r","e","s","o","u","r","c","e","s","/">>,
      tags |-> <<<<"s","t","u","d","e","n","t","s">>, <<"f","a","c","u","l","t","y","-","a","n","d","-","s","t","a","f","f">>, <<"o","f","f","-","c","a","m","p","u","s","-","p","a","r","t","n","e","r","s">>>>],
     [path |-> <<"/","b","c","c","n","-","r","e","s","o","u","r","c","e","s","/","b","c","c","n","-","c","a","m","p","u","s","-","c","l","i","m","a","t","e","-","n","e","w","s","/">>,
      tags |-> <<<<"s","t","u","d","e","n","t","s">>, <<"f","a","c","u","l","t","y","-","a","n","d","-","s","t","a","f","f">>, <<"m","e","d","i","a">>>>],
     [path |-> <<"/","b","c","c","n","-","r","e","s","o","u","r","c","e","s","/","p","o","d","c","a","s","t","s","-","a","n","d","-","v","i","d","e","o","s","/">>,
      tags |-> <<<<"s","t","u","d","e","n","t","s">>, <<"f","a","c","u","l","t","y","-","a","n","d","-","s","t","a","f","f">>, <<"m","e","d","i","a">>, <<"o","f","f","-","c","a","m","p","u","s","-","p","a","r","t","n","e","r","s">>>>],
     [path |-> <<"/","b","c","c","n","-","r","e","s","o","u","r","c","e","s","/","h","o","t","-","t","o","p","i","c","s","/">>,
      tags |-> <<<<"s","t","u","d","e","n","t","s">>, <<"f","a","c","u","l","t","y","-","a","n","d","-","s","t","a","f","f">>, <<"m","e","d","i","a">>>>],
     [path |-> <<"/","o","f","f","-","c","a","m","p","u","s","-","p","a","r","t","n","e","r","s","/">>,
      tags |-> <<<<"o","f","f","-","c","a","m","p","u","s","-","p","a","r","t","n","e","r","s">>, <<"f","a","c","u","l","t","y","-","a","n","d","-","s","t","a","f","f">>>>],
     [path |-> <<"/","m","e","d","i","a","/","m","e","d","i","a","-","i","n","q","u","i","r","i","e","s","/">>,
      tags |-> <<<<"m","e","d","i","a">>, <<"f","a","c","u","l","t","y","-","a","n","d","-","s","t","a","f","f">>>>],
     [path |-> <<"/","f","u","n","d","e","r","s","-","a","n","d","-","i","n","v","e","s","t","o","r","s","/">>,
      tags |-> <<<<"f","u","n","d","e","r","s","-","a","n","d","-","i","n","v","e","s","t","o","r","s">>, <<"o","f","f","-","c","a","m","p","u","s","-","p","a","r","t","n","e","r","s">>>>],
     [path |-> <<"/","r","e","s","o","u","r","c","e","s","-","a","n","d","-","t","o","o","l","s","/","g","i","v","e","-","a","n","d","-","s","p","o","n","s","o","r","/">>,
      tags |-> <<<<"o","f","f","-","c","a","m","p","u","s","-","p","a","r","t","n","e","r","s">>, <<"f","u","n","d","e","r","s","-","a","n","d","-","i","n","v","e","s","t","o","r","s">>, <<"m","e","d","i","a">>>>] >>

\* Mutant of ShippedFilterCategories: the 'media' category is missing
ShippedFilterCategories_NoMedia ==
  << [slug |-> <<"s","t","u","d","e","n","t","s">>,
      title |-> <<"S","t","u","d","e","n","t","s">>],
     [slug |-> <<"f","a","c","u","l","t","y","-","a","n","d","-","s","t","a","f","f">>,
      title |-> <<"F","a","c","u","l","t","y"," ","&"," ","S","t","a","f","f">>],
     [slug |-> <<"o","f","f","-","c","a","m","p","u","s","-","p","a","r","t","n","e","r","s">>,
      title |-> <<"O","f","f","-","C","a","m","p","u","s"," ","P","a","r","t","n","e","r","s">>],
     [slug |-> <<"f","u","n","d","e","r","s","-","a","n","d","-","i","n","v","e","s","t","o","r","s">>,
      title |-> <<"F","u","n","d","e","r","s","/","I","n","v","e","s","t","o","r","s">>] >>

\* FILTER_CATEGORIES as shipped: the dict in insertion order
ShippedFilterCategories ==
  << [slug |-> <<"s","t","u","d","e","n","t","s">>,
      title |-> <<"S","t","u","d","e","n","t","s">>],
     [slug |-> <<"f","a","c","u","l","t","y","-","a","n","d","-","s","t","a","f","f">>,
      title |-> <<"F","a","c","u","l","t","y"," ","&"," ","S","t","a","f","f">>],
     [slug |-> <<"o","f","f","-","c","a","m","p","u","s","-","p","a","r","t","n","e","r","s">>,
      title |-> <<"O","f","f","-","C","a","m","p","u","s"," ","P","a","r","t","n","e","r","s">>],
     [slug |-> <<"m","e","d","i","a">>,
      title |-> <<"M","e","d","i","a">>],
     [slug |-> <<"f","u","n","d","e","r","s","-","a","n","d","-","i","n","v","e","s","t","o","r","s">>,
      title |-> <<"F","u","n","d","e","r","s","/","I","n","v","e","s","t","o","r","s">>] >>

\* The chain of exact-match special cases, as a table from path to title
ShippedOverrides ==
  (<<"/","a","b","o","u","t","/">> :> <<"A","b","o","u","t"," ","B","C","C","N">>) @@
  (<<"/","s","t","u","d","e","n","t","s","/">> :> <<"S","t","u","d","e","n","t","s">>) @@
  (<<"/","s","t","u","d","e","n","t","s","/","c","l","i","m","a","t","e","-","c","l","a","s","s","e","s","/">> :> <<"C","l","i","m","a","t","e"," ","C","l","a","s","s","e","s">>) @@
  (<<"/","s","t","u","d","e","n","t","s","/","i","n","t","e","r","n","s","h","i","p","s","-","a","n","d","-","j","o","b","s","/">> :> <<"I","n","t","e","r","n","s","h","i","p","s"," ","a","n","d"," ","J","o","b","s">>) @@
  (<<"/","s","t","u","d","e","n","t","s","/","c","l","u","b","s","-","a","n","d","-","o","r","g","a","n","i","z","a","t","i","o","n","s","/">> :> <<"C","l","u","b","s"," ","a","n","d"," ","O","r","g","a","n","i","z","a","t","i","o","n","s">>) @@
  (<<"/","s","t","u","d","e","n","t","s","/","h","o","t","-","t","o","p","i","c","s","/">> :> <<"H","o","t"," ","T","o","p","i","c","s"," ","G","l","o","b","a","l"," ","u2013"," ","S","t","u","d","e","n","t","s">>) @@
  (<<"/","f","a","c","u","l","t","y","-","a","n","d","-","s","t","a","f","f","/">> :> <<"F","a","c","u","l","t","y"," ","a","n","d"," ","S","t","a","f","f">>) @@
  (<<"/","f","a","c","u","l","t","y","-","a","n","d","-","s","t","a","f","f","/","p","e","o","p","l","e","-","p","r","o","j","e","c","t","s","-","a","n","d","-","p","r","o","g","r","a","m","s","/">> :> <<"P","e","o","p","l","e",","," ","P","r","o","j","e","c","t","s"," ","a","n","d"," ","P","r","o","g","r","a","m","s">>) @@
  (<<"/","f","a","c","u","l","t","y","-","a","n","d","-","s","t","a","f","f","/","f","i","n","a","n","c","i","a","l","-","s","u","p","p","o","r","t","/">> :> <<"F","i","n","a","n","c","i","a","l"," ","S","u","p","p","o","r","t">>) @@
  (<<"/","f","a","c","u","l","t","y","-","a","n","d","-","s","t","a","f","f","/","h","o","t","-","t","o","p","i","c","s","/">> :> <<"G","l","o","b","a","l"," ","H","o","t"," ","T","o","p","i","c","s"," ","u2013"," ","F","a","c","u","l","t","y"," ","&"," ","S","t","a","f","f">>) @@
  (<<"/","f","a","c","u","l","t","y","-","a","n","d","-","s","t","a","f","f","/","f","i","n","d","-","h","e","l","p","/">> :> <<"F","i","n","d"," ","H","E","L","P","!">>) @@
  (<<"/","b","c","c","n","-","r","e","s","o","u","r","c","e","s","/">> :> <<"C","o","o","l"," ","B","C","C","N"," ","R","e","s","o","u","r","c","e","s">>) @@
  (<<"/","b","c","c","n","-","r","e","s","o","u","r","c","e","s","/","b","c","c","n","-","c","a","m","p","u","s","-","c","l","i","m","a","t","e","-","n","e","w","s","/">> :> <<"B","C","C","N"," ","C","a","m","p","u","s"," ","C","l","i","m","a","t","e"," ","N","e","w","s">>) @@
  (<<"/","b","c","c","n","-","r","e","s","o","u","r","c","e","s","/","p","o","d","c","a","s","t","s","-","a","n","d","-","v","i","d","e","o","s","/">> :> <<"P","o","d","c","a","s","t","s"," ","a","n","d"," ","V","i","d","e","o","s">>) @@
  (<<"/","b","c","c","n","-","r","e","s","o","u","r","c","e","s","/","h","o","t","-","t","o","p","i","c","s","/">> :> <<"B","C","C","N"," ","G","l","o","b","a","l"," ","H","o","t"," ","T","o","p","i","c","s"," ","u2013"," ","c","e","n","t","r","a","l">>) @@
  (<<"/","o","f","f","-","c","a","m","p","u","s","-","p","a","r","t","n","e","r","s","/">> :> <<"O","f","f"," ","C","a","m","p","u","s"," ","P","a","r","t","n","e","r","s">>) @@
  (<<"/","m","e","d","i","a","/","m","e","d","i","a","-","i","n","q","u","i","r","i","e","s","/">> :> <<"M","e","d","i","a"," ","I","n","q","u","i","r","i","e","s">>) @@
  (<<"/","f","u","n","d","e","r","s","-","a","n","d","-","i","n","v","e","s","t","o","r","s","/">> :> <<"F","u","n","d","e","r","s","/","I","n","v","e","s","t","o","r","s">>) @@
  (<<"/","r","e","s","o","u","r","c","e","s","-","a","n","d","-","t","o","o","l","s","/","g","i","v","e","-","a","n","d","-","s","p","o","n","s","o","r","/">> :> <<"S","p","o","n","s","o","r","s">>)

\* The path of every entry of the static page list, in the order of the appends
ShippedPagePaths ==
  << <<"i","n","d","e","x",".","h","t","m","l">>,
     <<"a","b","o","u","t","/","i","n","d","e","x",".","h","t","m","l">>,
     <<"a","b","o","u","t","/","c","o","n","t","a","c","t","-","a","n","d","-","h","e","l","p","/","i","n","d","e","x",".","h","t","m","l">>,
     <<"a","b","o","u","t","/","o","u","r","-","n","e","t","w","o","r","k","-","g","o","v","e","r","n","a","n","c","e","/","i","n","d","e","x",".","h","t","m","l">>,
     <<"p","r","o","g","r","a","m","s","-","a","n","d","-","o","p","p","o","r","t","u","n","i","t","i","e","s","/","i","n","d","e","x",".","h","t","m","l">>,
     <<"p","r","o","g","r","a","m","s","-","a","n","d","-","o","p","p","o","r","t","u","n","i","t","i","e","s","/","c","l","i","m","a","t","e","-","c","l","a","s","s","e","s","/","i","n","d","e","x",".","h","t","m","l">>,
     <<"p","r","o","g","r","a","m","s","-","a","n","d","-","o","p","p","o","r","t","u","n","i","t","i","e","s","/","i","n","t","e","r","n","s","h","i","p","s","-","a","n","d","-","j","o","b","s","/","i","n","d","e","x",".","h","t","m","l">>,
     <<"p","r","o","g","r","a","m","s","-","a","n","d","-","o","p","p","o","r","t","u","n","i","t","i","e","s","/","c","l","u","b","s","-","a","n","d","-","o","r","g","a","n","i","z","a","t","i","o","n","s","/","i","n","d","e","x",".","h","t","m","l">>,
     <<"p","r","o","g","r","a","m","s","-","a","n","d","-","o","p","p","o","r","t","u","n","i","t","i","e","s","/","r","e","s","e","a","r","c","h","-","a","n","d","-","m","e","n","t","o","r","i","n","g","/","i","n","d","e","x",".","h","t","m","l">>,
     <<"p","r","o","g","r","a","m","s","-","a","n","d","-","o","p","p","o","r","t","u","n","i","t","i","e","s","/","f","u","n","d","i","n","g","-","a","n","d","-","g","r","a","n","t","s","/","i","n","d","e","x",".","h","t","m","l">>,
     <<"p","r","o","g","r","a","m","s","-","a","n","d","-","o","p","p","o","r","t","u","n","i","t","i","e","s","/","p","a","r","t","n","e","r","-","p","r","o","g","r","a","m","s","/","i","n","d","e","x",".","h","t","m","l">>,
     <<"p","e","o","p","l","e","-","a","n","d","-","p","a","r","t","n","e","r","s","/","i","n","d","e","x",".","h","t","m","l">>,
     <<"p","e","o","p","l","e","-","a","n","d","-","p","a","r","t","n","e","r","s","/","p","e","o","p","l","e","-","d","i","r","e","c","t","o","r","y","/","i","n","d","e","x",".","h","t","m","l">>,
     <<"r","e","s","o","u","r","c","e","s","-","a","n","d","-","t","o","o","l","s","/","i","n","d","e","x",".","h","t","m","l">>,
     <<"r","e","s","o","u","r","c","e","s","-","a","n","d","-","t","o","o","l","s","/","f","i","n","a","n","c","i","a","l","-","s","u","p","p","o","r","t","/","i","n","d","e","x",".","h","t","m","l">>,
     <<"r","e","s","o","u","r","c","e","s","-","a","n","d","-","t","o","o","l","s","/","g","i","v","e","-","a","n","d","-","s","p","o","n","s","o","r","/","i","n","d","e","x",".","h","t","m","l">>,
     <<"r","e","s","o","u","r","c","e","s","-","a","n","d","-","t","o","o","l","s","/","i","n","s","t","i","t","u","t","e","s","-","a","n","d","-","c","e","n","t","e","r","s","-","m","a","p","/","i","n","d","e","x",".","h","t","m","l">>,
     <<"r","e","s","o","u","r","c","e","s","-","a","n","d","-","t","o","o","l","s","/","c","l","i","m","a","t","e","-","m","a","p","s","-","d","a","t","a","/","i","n","d","e","x",".","h","t","m","l">>,
     <<"n","e","w","s","-","e","v","e","n","t","s","-","c","o","m","m","u","n","i","t","y","/","i","n","d","e","x",".","h","t","m","l">>,
     <<"n","e","w","s","-","e","v","e","n","t","s","-","c","o","m","m","u","n","i","t","y","/","n","e","w","s","-","a","n","d","-","u","p","d","a","t","e","s","/","i","n","d","e","x",".","h","t","m","l">>,
     <<"n","e","w","s","-","e","v","e","n","t","s","-","c","o","m","m","u","n","i","t","y","/","e","v","e","n","t","s","-","a","n","d","-","c","o","m","m","u","n","i","t","y","/","i","n","d","e","x",".","h","t","m","l">>,
     <<"n","e","w","s","-","e","v","e","n","t","s","-","c","o","m","m","u","n","i","t","y","/","h","o","t","-","t","o","p","i","c","s","/","i","n","d","e","x",".","h","t","m","l">>,
     <<"n","e","w","s","-","e","v","e","n","t","s","-","c","o","m","m","u","n","i","t","y","/","n","e","w","s","l","e","t","t","e","r","/","i","n","d","e","x",".","h","t","m","l">>,
     <<"n","e","w","s","-","e","v","e","n","t","s","-","c","o","m","m","u","n","i","t","y","/","b","c","c","n","-","c","a","m","p","u","s","-","c","l","i","m","a","t","e","-","n","e","w","s","/","i","n","d","e","x",".","h","t","m","l">>,
     <<"f","a","c","u","l","t","y","-","a","n","d","-","s","t","a","f","f","/","i","n","d","e","x",".","h","t","m","l">>,
     <<"f","a","c","u","l","t","y","-","a","n","d","-","s","t","a","f","f","/","p","e","o","p","l","e","-","p","r","o","j","e","c","t","s","-","a","n","d","-","p","r","o","g","r","a","m","s","/","i","n","d","e","x",".","h","t","m","l">>,
     <<"f","a","c","u","l","t","y","-","a","n","d","-","s","t","a","f","f","/","f","i","n","a","n","c","i","a","l","-","s","u","p","p","o","r","t","/","i","n","d","e","x",".","h","t","m","l">>,
     <<"f","a","c","u","l","t","y","-","a","n","d","-","s","t","a","f","f","/","f","i","n","d","-","h","e","l","p","/","i","n","d","e","x",".","h","t","m","l">>,
     <<"f","a","c","u","l","t","y","-","a","n","d","-","s","t","a","f","f","/","m","e","d","i","a","-","c","o","v","e","r","a","g","e","/","i","n","d","e","x",".","h","t","m","l">>,
     <<"f","a","c","u","l","t","y","-","a","n","d","-","s","t","a","f","f","/","h","o","t","-","t","o","p","i","c","s","/","i","n","d","e","x",".","h","t","m","l">>,
     <<"s","t","u","d","e","n","t","s","/","i","n","d","e","x",".","h","t","m","l">>,
     <<"s","t","u","d","e","n","t","s","/","c","l","i","m","a","t","e","-","c","l","a","s","s","e","s","/","i","n","d","e","x",".","h","t","m","l">>,
     <<"s","t","u","d","e","n","t","s","/","i","n","t","e","r","n","s","h","i","p","s","-","a","n","d","-","j","o","b","s","/","i","n","d","e","x",".","h","t","m","l">>,
     <<"s","t","u","d","e","n","t","s","/","c","l","u","b","s","-","a","n","d","-","o","r","g","a","n","i","z","a","t","i","o","n","s","/","i","n","d","e","x",".","h","t","m","l">>,
     <<"s","t","u","d","e","n","t","s","/","r","e","s","e","a","r","c","h","e","r","s","-","m","e","n","t","o","r","s","-","a","n","d","-","p","r","o","j","e","c","t","s","/","i","n","d","e","x",".","h","t","m","l">>,
     <<"s","t","u","d","e","n","t","s","/","h","o","t","-","t","o","p","i","c","s","/","i","n","d","e","x",".","h","t","m","l">>,
     <<"b","c","c","n","-","r","e","s","o","u","r","c","e","s","/","i","n","d","e","x",".","h","t","m","l">>,
     <<"b","c","c","n","-","r","e","s","o","u","r","c","e","s","/","p","o","d","c","a","s","t","s","-","a","n","d","-","v","i","d","e","o","s","/","i","n","d","e","x",".","h","t","m","l">>,
     <<"b","c","c","n","-","r","e","s","o","u","r","c","e","s","/","e","v","e","n","t","s","-","a","n","d","-","w","e","b","i","n","a","r","s","/","i","n","d","e","x",".","h","t","m","l">>,
     <<"b","c","c","n","-","r","e","s","o","u","r","c","e","s","/","h","o","t","-","t","o","p","i","c","s","/","i","n","d","e","x",".","h","t","m","l">>,
     <<"b","c","c","n","-","r","e","s","o","u","r","c","e","s","/","b","c","c","n","-","c","a","m","p","u","s","-","c","l","i","m","a","t","e","-","n","e","w","s","/","i","n","d","e","x",".","h","t","m","l">>,
     <<"b","c","c","n","-","r","e","s","o","u","r","c","e","s","/","b","e","r","k","e","l","e","y","-","c","l","i","m","a","t","e","-","c","a","l","e","n","d","a","r","/","i","n","d","e","x",".","h","t","m","l">>,
     <<"b","c","c","n","-","r","e","s","o","u","r","c","e","s","/","c","l","i","m","a","t","e","-","1","0","1","/","i","n","d","e","x",".","h","t","m","l">>,
     <<"o","f","f","-","c","a","m","p","u","s","-","p","a","r","t","n","e","r","s","/","i","n","d","e","x",".","h","t","m","l">>,
     <<"f","u","n","d","e","r","s","-","a","n","d","-","i","n","v","e","s","t","o","r","s","/","i","n","d","e","x",".","h","t","m","l">>,
     <<"m","e","d","i","a","/","i","n","d","e","x",".","h","t","m","l">>,
     <<"m","e","d","i","a","/","m","e","d","i","a","-","i","n","q","u","i","r","i","e","s","/","i","n","d","e","x",".","h","t","m","l">>,
     <<"m","e","d","i","a","/","p","r","e","s","s","-","k","i","t","/","i","n","d","e","x",".","h","t","m","l">> >>

\* base_path of main
base_path == <<"/","h","o","m","e","/","u","s","e","r","/","B","C","C","N","_","w","e","b","s","i","t","e">>

-----------------------------------------------------------------------------
(* create_filter_landing_page *)

\* category_slug in FILTER_CATEGORIES
HasCategory(category_slug) ==
  \E i \in 1..Len(FILTER_CATEGORIES) : FILTER_CATEGORIES[i].slug = category_slug

\* FILTER_CATEGORIES[category_slug]
Category(category_slug) ==
  FILTER_CATEGORIES[CHOOSE i \in 1..Len(FILTER_CATEGORIES) :
                       FILTER_CATEGORIES[i].slug = category_slug]

\* Mutant of InTags: only the first tag of the list is looked at
InTags_FirstOnly(category_slug, tags) == Len(tags) > 0 /\ tags[1] = category_slug

\* category_slug in tags, on a list
InTags(category_slug, tags) == \E i \in 1..Len(tags) : tags[i] = category_slug

\* Mutant of DerivedTitle: the first segment is taken, not the last
DerivedTitle_FirstSegment(page_url) ==
  LET path_parts == Split(Strip(page_url, "/"), "/")
  IN  Title(Replace(path_parts[1], "-", " "))

\* path_parts[-1].replace('-', ' ').title(), path_parts the stripped path split at '/'
DerivedTitle(page_url) ==
  LET path_parts == Split(Strip(page_url, "/"), "/")
  IN  Title(Replace(path_parts[Len(path_parts)], "-", " "))

\* Mutant of PageTitle: the special cases are never applied
PageTitle_NoOverride(page_url) ==
  IF page_url = <<"/">>
  THEN <<"H","o","m","e">>
  ELSE LET path_parts == Split(Strip(page_url, "/"), "/")
       IN  Title(Replace(path_parts[Len(path_parts)], "-", " "))

\* Mutant of PageTitle: the special cases are tried before the root test
PageTitle_OverrideFirst(page_url) ==
  IF page_url \in DOMAIN TITLE_OVERRIDES
  THEN TITLE_OVERRIDES[page_url]
  ELSE IF page_url = <<"/">>
       THEN <<"H","o","m","e">>
       ELSE LET path_parts == Split(Strip(page_url, "/"), "/")
            IN  Title(Replace(path_parts[Len(path_parts)], "-", " "))

\* Mutant of PageTitle: the root is titled like any other path
PageTitle_NoRootCase(page_url) ==
  LET path_parts == Split(Strip(page_url, "/"), "/")
  IN  Title(Replace(path_parts[Len(path_parts)], "-", " "))

\* The title of a tagged page: "Home" for the root; else the derived title,
\* replaced by the special case of exactly this path when there is one
PageTitle(page_url) ==
  IF page_url = <<"/">>
  THEN <<"H","o","m","e">>
  ELSE IF page_url \in DOMAIN TITLE_OVERRIDES
       THEN TITLE_OVERRIDES[page_url]
       ELSE DerivedTitle(page_url)

\* Mutant of PageUrl: the root maps to the base path without the separator
PageUrl_RootBare(page_url) ==
  IF page_url # <<"/">> THEN BASE_URL \o page_url ELSE BASE_URL

\* The URL of a tagged page
PageUrl(page_url) ==
  IF page_url # <<"/">> THEN BASE_URL \o page_url ELSE BASE_URL \o <<"/">>

\* The loop over PAGE_TAGS.items(): one entry appended per page whose tags
\* contain the category, in the order of the dict
RECURSIVE TaggedPages(_, _)
TaggedPages(category_slug, items) ==
  IF items = <<>> THEN <<>>
  ELSE LET page_url == Head(items).path
           tags     == Head(items).tags
           rest     == TaggedPages(category_slug, Tail(items))
       IN  IF InTags(category_slug, tags)
           THEN <<[title |-> PageTitle(page_url), url |-> PageUrl(page_url)]>> \o rest
           ELSE rest

\* list.sort(key=title): stable, ascending by the str comparison of the titles.
\* InsertByTitle puts e behind every entry whose title is not greater than e's.
RECURSIVE InsertByTitle(_, _)
InsertByTitle(e, sorted) ==
  IF sorted = <<>> THEN <<e>>
  ELSE IF StrLess(e.title, Head(sorted).title)
       THEN <<e>> \o sorted
       ELSE <<Head(sorted)>> \o InsertByTitle(e, Tail(sorted))

\* Mutant of SortByTitle: the entries stay in the order of the scan
SortByTitle_Unsorted(entries) == entries

RECURSIVE SortByTitle(_)
SortByTitle(entries) ==
  IF entries = <<>> THEN <<>>
  ELSE InsertByTitle(entries[Len(entries)],
                     SortByTitle(SubSeq(entries, 1, Len(entries) - 1)))

\* The dict the function returns; content is the HTML's data: the category
\* title of the lead paragraph and one card per sorted entry
FilterPage(category_slug) ==
  LET title        == Category(category_slug).title
      tagged_pages == SortByTitle(TaggedPages(category_slug, PAGE_TAGS))
  IN  [path |-> <<"f","i","l","t","e","r","/">> \o category_slug
                  \o <<"/","i","n","d","e","x",".","h","t","m","l">>,
       title |-> title,
       breadcrumb |-> << [name |-> <<"H","o","m","e">>, url |-> <<BASE_URL \o <<"/">>>>],
                         [name |-> title \o <<" ","F","i","l","t","e","r">>, url |-> <<>>] >>,
       show_audience_filter |-> TRUE,
       content |-> [relevant_to |-> title, cards |-> tagged_pages]]

\* Mutant of create_filter_landing_page: the category is looked up after the loop
create_filter_landing_page_LateLookup(category_slug) ==
  IF ~HasCategory(category_slug)
  THEN [slug |-> category_slug, raised |-> "KeyError",
        scanned |-> [i \in 1..Len(PAGE_TAGS) |-> PAGE_TAGS[i].path],
        returned |-> <<>>]
  ELSE [slug |-> category_slug, raised |-> "none",
        scanned |-> [i \in 1..Len(PAGE_TAGS) |-> PAGE_TAGS[i].path],
        returned |-> <<FilterPage(category_slug)>>]

\* Mutant of create_filter_landing_page: a category without pages is refused
create_filter_landing_page_EmptyRaises(category_slug) ==
  IF ~HasCategory(category_slug)
  THEN [slug |-> category_slug, raised |-> "KeyError", scanned |-> <<>>,
        returned |-> <<>>]
  ELSE IF TaggedPages(category_slug, PAGE_TAGS) = <<>>
       THEN [slug |-> category_slug, raised |-> "ValueError",
             scanned |-> [i \in 1..Len(PAGE_TAGS) |-> PAGE_TAGS[i].path],
             returned |-> <<>>]
       ELSE [slug |-> category_slug, raised |-> "none",
             scanned |-> [i \in 1..Len(PAGE_TAGS) |-> PAGE_TAGS[i].path],
             returned |-> <<FilterPage(category_slug)>>]

\* One call: the subscript FILTER_CATEGORIES[category_slug] raises KeyError
\* for an unknown slug before the loop starts; scanned lists the paths the
\* loop has visited when the call ends, returned holds the returned dict
create_filter_landing_page(category_slug) ==
  IF ~HasCategory(category_slug)
  THEN [slug |-> category_slug, raised |-> "KeyError", scanned |-> <<>>,
        returned |-> <<>>]
  ELSE [slug |-> category_slug, raised |-> "none",
        scanned |-> [i \in 1..Len(PAGE_TAGS) |-> PAGE_TAGS[i].path],
        returned |-> <<FilterPage(category_slug)>>]

-----------------------------------------------------------------------------
(* Inputs *)

\* The largest number of entries of a tag index other than the shipped one
MaxPages == 2

TestPaths ==
  { <<"/">>,
    <<"/","a","/">>,
    <<"/","a","/","b","/">>,
    <<"/","c","/","b","/">>,
    <<"/","/">>,
    <<"/","s","t","u","d","e","n","t","s","/","h","o","t","-","t","o","p","i","c","s","/">> }

TestTagLists == { <<>>, << <<"x">> >>, << <<"x">>, <<"y">> >>, << <<"x">>, <<"x">> >> }

TestSlugs == { <<"x">>, <<"y">>, <<"z">> }

\* A dict has each key once
TagIndexes ==
  UNION { { s \in [1..n -> [path : TestPaths, tags : TestTagLists]] :
              \A i, j \in 1..n : i # j => s[i].path # s[j].path } : n \in 0..MaxPages }

CategoryTables ==
  { << [slug |-> <<"x">>, title |-> <<"X">>], [slug |-> <<"y">>, title |-> <<"Y">>] >>,
    << [slug |-> <<"x">>, title |-> <<"X">>] >> }

NoOverrides == [p \in {} |-> <<>>]

TestOverrides ==
  (<<"/">> :> <<"R","o","o","t">>) @@ (<<"/","a","/">> :> <<"a">>)

OverrideTables == { ShippedOverrides, NoOverrides, TestOverrides }

TestPagePaths == << <<"i","n","d","e","x",".","h","t","m","l">> >>

-----------------------------------------------------------------------------
(* The state machine *)

ShippedInit ==
  /\ PAGE_TAGS = ShippedPageTags
  /\ FILTER_CATEGORIES = ShippedFilterCategories
  /\ TITLE_OVERRIDES = ShippedOverrides
  /\ pages = ShippedPagePaths

TestInit ==
  /\ PAGE_TAGS \in TagIndexes
  /\ FILTER_CATEGORIES \in CategoryTables
  /\ TITLE_OVERRIDES \in OverrideTables
  /\ pages = TestPagePaths

Init ==
  /\ ShippedInit \/ TestInit
  /\ outcome = <<>>
  /\ pc = "idle"
  /\ cat_i = 0
  /\ written = <<>>
  /\ filter_pages_count = 0
  /\ filter_html = <<>>

\* os.path.join(base_path, path) for a relative path
Join(base, path) == base \o <<"/">> \o path

\* Mutant of Request: the call takes the category out of the tag lists it
\* has matched (tags.remove in the loop)
Request_ConsumesTags(category_slug) ==
  /\ pc = "idle"
  /\ outcome' = <<create_filter_landing_page(category_slug)>>
  /\ PAGE_TAGS' = [i \in 1..Len(PAGE_TAGS) |->
                     [path |-> PAGE_TAGS[i].path,
                      tags |-> SelectSeq(PAGE_TAGS[i].tags,
                                         LAMBDA t : t # category_slug)]]
  /\ UNCHANGED <<FILTER_CATEGORIES, TITLE_OVERRIDES, pages, pc, cat_i, written,
                 filter_pages_count, filter_html>>

\* A call of create_filter_landing_page from outside main, with any slug
Request(category_slug) ==
  /\ pc = "idle"
  /\ outcome' = <<create_filter_landing_page(category_slug)>>
  /\ UNCHANGED <<config, pc, cat_i, written, filter_pages_count, filter_html>>

\* Mutant of WritePages: the loop starts at the second entry of pages
WritePages_SkipsFirst ==
  /\ pc = "idle"
  /\ written' = written \o [i \in 1..(Len(pages) - 1) |-> Join(base_path, pages[i + 1])]
  /\ pc' = "filters"
  /\ UNCHANGED <<config, outcome, cat_i, filter_pages_count, filter_html>>

\* main, first loop: every entry of pages is rendered and written
WritePages ==
  /\ pc = "idle"
  /\ written' = written \o [i \in 1..Len(pages) |-> Join(base_path, pages[i])]
  /\ pc' = "filters"
  /\ UNCHANGED <<config, outcome, cat_i, filter_pages_count, filter_html>>

\* Mutant of WriteFilterPage: the counter is not incremented
WriteFilterPage_NoCount ==
  /\ pc = "filters"
  /\ cat_i < Len(FILTER_CATEGORIES)
  /\ LET o == create_filter_landing_page(FILTER_CATEGORIES[cat_i + 1].slug)
     IN  /\ outcome' = <<o>>
         /\ IF o.raised = "none"
            THEN /\ written' = Append(written, Join(base_path, o.returned[1].path))
                 /\ filter_html' = Append(filter_html, o.returned[1].content.cards)
                 /\ cat_i' = cat_i + 1
                 /\ UNCHANGED <<pc, filter_pages_count>>
            ELSE /\ pc' = "crashed"
                 /\ UNCHANGED <<written, filter_pages_count, cat_i, filter_html>>
  /\ UNCHANGED config

\* main, second loop: one iteration, for the next key of FILTER_CATEGORIES
WriteFilterPage ==
  /\ pc = "filters"
  /\ cat_i < Len(FILTER_CATEGORIES)
  /\ LET o == create_filter_landing_page(FILTER_CATEGORIES[cat_i + 1].slug)
     IN  /\ outcome' = <<o>>
         /\ IF o.raised = "none"
            THEN /\ written' = Append(written, Join(base_path, o.returned[1].path))
                 /\ filter_html' = Append(filter_html, o.returned[1].content.cards)
                 /\ filter_pages_count' = filter_pages_count + 1
                 /\ cat_i' = cat_i + 1
                 /\ pc' = pc
            ELSE /\ pc' = "crashed"
                 /\ UNCHANGED <<written, filter_pages_count, cat_i, filter_html>>
  /\ UNCHANGED config

\* main, after the second loop: the summary is printed
Finish ==
  /\ pc = "filters"
  /\ cat_i = Len(FILTER_CATEGORIES)
  /\ pc' = "done"
  /\ UNCHANGED <<config, outcome, cat_i, written, filter_pages_count, filter_html>>

Next ==
  \/ \E category_slug \in TestSlugs : Request(category_slug)
  \/ WritePages
  \/ WriteFilterPage
  \/ Finish

Spec == Init /\ [][Next]_vars

-----------------------------------------------------------------------------
(* Properties of the listings *)

\* The last call returned a page
Returned == outcome # <<>> /\ outcome[1].raised = "none"

\* The category the last call was made for, and the listing it returned
Slug == outcome[1].slug
Cards == outcome[1].returned[1].content.cards

\* The set of categories a tag list names
TagSet(tags) == {tags[k] : k \in 1..Len(tags)}

\* The entries of the tag index tagged with the category of the last call
Tagged == {i \in 1..Len(PAGE_TAGS) : Slug \in TagSet(PAGE_TAGS[i].tags)}

\* The positions of the listing whose URL is built from path P
EntriesFor(P) == {k \in 1..Len(Cards) : Cards[k].url = BASE_URL \o P}

HomeTitle == <<"H","o","m","e">>

\* C1: the listing built for category C holds exactly one entry whose URL is
\* built from P for every path P whose tags name C (once or several times),
\* no entry for a path whose tags do not name C, and nothing else.
C1_Inversion ==
  Returned =>
    /\ \A i \in 1..Len(PAGE_TAGS) :
         Cardinality(EntriesFor(PAGE_TAGS[i].path)) = IF i \in Tagged THEN 1 ELSE 0
    /\ Len(Cards) = Cardinality(Tagged)

\* A listing of a tag index where one path names the category twice and
\* another path does not name it
C1_Witness ==
  /\ Returned
  /\ \E i, j \in 1..Len(PAGE_TAGS) :
       /\ PAGE_TAGS[i].tags = <<Slug, Slug>>
       /\ Slug \notin TagSet(PAGE_TAGS[j].tags)
  /\ Len(Cards) = 1

\* C2: in every returned listing an entry whose title is smaller, by the
\* comparison of str, than the title of another entry stands before it.
C2_SortedByTitle ==
  Returned =>
    \A i, j \in 1..Len(Cards) :
      StrLess(Cards[i].title, Cards[j].title) => i < j

\* A listing whose order is not the order of the scan, with a lower-case
\* title behind an upper-case one
C2_Witness ==
  /\ Returned
  /\ Len(Cards) = 2
  /\ Cards[1].title = <<"B">>
  /\ Cards[2].title = <<"a">>
  /\ PAGE_TAGS[1].path = <<"/","a","/">>

\* C3: a tagged path other than the root that has a special-case title is
\* listed with that title.
C3_OverridePrecedence ==
  Returned =>
    \A i \in Tagged :
      LET P == PAGE_TAGS[i].path
      IN  (P # <<"/">> /\ P \in DOMAIN TITLE_OVERRIDES) =>
            /\ EntriesFor(P) # {}
            /\ \A k \in EntriesFor(P) : Cards[k].title = TITLE_OVERRIDES[P]

\* A listed path whose special-case title differs from the title its last
\* segment gives
C3_Witness ==
  /\ Returned
  /\ \E i \in Tagged :
       LET P == PAGE_TAGS[i].path
       IN  /\ P = <<"/","s","t","u","d","e","n","t","s","/","h","o","t","-","t","o","p","i","c","s","/">>
           /\ P \in DOMAIN TITLE_OVERRIDES
           /\ TITLE_OVERRIDES[P] # <<"H","o","t"," ","T","o","p","i","c","s">>
           /\ \E k \in EntriesFor(P) : Cards[k].title = TITLE_OVERRIDES[P]

\* C4: a tagged root path is listed as "Home", also when the special-case
\* table has a title for the root path.
C4_RootIsHome ==
  Returned =>
    \A i \in Tagged :
      PAGE_TAGS[i].path = <<"/">> =>
        /\ EntriesFor(<<"/">>) # {}
        /\ \A k \in EntriesFor(<<"/">>) : Cards[k].title = HomeTitle

\* The root is listed while the special-case table has a title for it
C4_Witness ==
  /\ Returned
  /\ <<"/">> \in DOMAIN TITLE_OVERRIDES
  /\ TITLE_OVERRIDES[<<"/">>] # HomeTitle
  /\ \E i \in Tagged : PAGE_TAGS[i].path = <<"/">>
  /\ \E k \in 1..Len(Cards) : Cards[k].title = HomeTitle

\* The slugs of the category table
CategorySlugs == {FILTER_CATEGORIES[i].slug : i \in 1..Len(FILTER_CATEGORIES)}

\* C5: a call for a slug that is not in the category table raises (KeyError,
\* the UnknownCategory of the design), returns no page and has visited no
\* path of the tag index.
C5_UnknownCategory ==
  (outcome # <<>> /\ outcome[1].slug \notin CategorySlugs) =>
    /\ outcome[1].raised = "KeyError"
    /\ outcome[1].returned = <<>>
    /\ outcome[1].scanned = <<>>

\* A call for an unknown slug on a tag index that has paths to scan
C5_Witness ==
  /\ outcome # <<>>
  /\ outcome[1].slug \notin CategorySlugs
  /\ outcome[1].raised = "KeyError"
  /\ Len(PAGE_TAGS) = 2
  /\ \A i \in 1..Len(PAGE_TAGS) : PAGE_TAGS[i].tags # <<>>

\* C6: a call for a category of the table that no path is tagged with
\* raises nothing and returns a page with path, title, breadcrumb and
\* content, whose listing is empty.
C6_EmptyCategory ==
  (outcome # <<>> /\ outcome[1].slug \in CategorySlugs /\ Tagged = {}) =>
    /\ outcome[1].raised = "none"
    /\ Len(outcome[1].returned) = 1
    /\ {"path", "title", "breadcrumb", "content"} \subseteq DOMAIN outcome[1].returned[1]
    /\ outcome[1].returned[1].path # <<>>
    /\ outcome[1].returned[1].title # <<>>
    /\ Len(outcome[1].returned[1].breadcrumb) = 2
    /\ Cards = <<>>

\* A page for a category without pages, from a tag index that is not empty
C6_Witness ==
  /\ Returned
  /\ Slug \in CategorySlugs
  /\ Tagged = {}
  /\ Len(PAGE_TAGS) = 2
  /\ \A i \in 1..Len(PAGE_TAGS) : PAGE_TAGS[i].tags # <<>>
  /\ Cards = <<>>

\* A path other than the root without any non-empty segment
Malformed(P) == P # <<"/">> /\ \A k \in 1..Len(P) : P[k] = "/"

\* C7: a tagged path without a non-empty segment and without a special case
\* is listed with the path itself as its title.
C7_MalformedPathFallback ==
  Returned =>
    \A i \in Tagged :
      LET P == PAGE_TAGS[i].path
      IN  (Malformed(P) /\ P \notin DOMAIN TITLE_OVERRIDES) =>
            /\ EntriesFor(P) # {}
            /\ \A k \in EntriesFor(P) : Cards[k].title = P

\* The non-empty pieces of P between its '/' characters
Segments(P) == SelectSeq(Split(P, "/"), LAMBDA seg : seg # <<>>)

\* The entries of the example: '/a/' tagged x, '/a/b/' tagged x and y
ExampleIndex ==
  { [path |-> <<"/","a","/">>, tags |-> << <<"x">> >>],
    [path |-> <<"/","a","/","b","/">>, tags |-> << <<"x">>, <<"y">> >>] }

IsExample ==
  /\ Len(PAGE_TAGS) = 2
  /\ {PAGE_TAGS[1], PAGE_TAGS[2]} = ExampleIndex
  /\ DOMAIN TITLE_OVERRIDES = {}
  /\ CategorySlugs = {<<"x">>, <<"y">>}

\* C8: a tagged path other than the root, with a non-empty segment and
\* without a special case, is listed under its last non-empty segment with
\* every '-' turned into a space and title-cased; for the example index the
\* listing of x is titled "A", "B" in this order and the one of y "B".
C8_DefaultTitle ==
  Returned =>
    /\ \A i \in Tagged :
         LET P == PAGE_TAGS[i].path
         IN  (P # <<"/">> /\ Segments(P) # <<>> /\ P \notin DOMAIN TITLE_OVERRIDES) =>
               /\ EntriesFor(P) # {}
               /\ \A k \in EntriesFor(P) :
                    Cards[k].title =
                      Title(Replace(Segments(P)[Len(Segments(P))], "-", " "))
    /\ (IsExample /\ Slug = <<"x">>) =>
         [k \in 1..Len(Cards) |-> Cards[k].title] = << <<"A">>, <<"B">> >>
    /\ (IsExample /\ Slug = <<"y">>) =>
         [k \in 1..Len(Cards) |-> Cards[k].title] = << <<"B">> >>

\* The listing of x for the example index, scanned with '/a/b/' first
C8_Witness ==
  /\ Returned
  /\ IsExample
  /\ PAGE_TAGS[1].path = <<"/","a","/","b","/">>
  /\ Slug = <<"x">>
  /\ Cards[1].title = <<"A">>
  /\ Cards[2].title = <<"B">>

\* C9: the URLs of a listing are the base path immediately followed by the
\* path, for every tagged path; for the root that is the base path and one
\* '/' and nothing else.
C9_Urls ==
  Returned =>
    /\ {Cards[k].url : k \in 1..Len(Cards)} = {BASE_URL \o PAGE_TAGS[i].path : i \in Tagged}
    /\ \A i \in Tagged :
         PAGE_TAGS[i].path = <<"/">> =>
           \E k \in 1..Len(Cards) :
             /\ Cards[k].title = HomeTitle
             /\ Len(Cards[k].url) = Len(BASE_URL) + 1
             /\ SubSeq(Cards[k].url, 1, Len(BASE_URL)) = BASE_URL
             /\ Cards[k].url[Len(BASE_URL) + 1] = "/"

\* A listing with the root and another path
C9_Witness ==
  /\ Returned
  /\ Len(Cards) = 2
  /\ \E k \in 1..2 : Cards[k].url = BASE_URL \o <<"/">>
  /\ \E k \in 1..2 : Cards[k].url = BASE_URL \o <<"/","a","/","b","/">>

\* The tag index whose only path is the root, tagged with x
RootOnly ==
  /\ Len(PAGE_TAGS) = 1
  /\ PAGE_TAGS[1].path = <<"/">>
  /\ TagSet(PAGE_TAGS[1].tags) = {<<"x">>}

\* C10 as stated: for the root-only index the listing of x is one entry,
\* titled "Home", whose URL is the base path.
C10_RootUrlIsBasePath ==
  (Returned /\ RootOnly /\ Slug = <<"x">>) =>
    /\ Len(Cards) = 1
    /\ Cards[1].title = HomeTitle
    /\ Cards[1].url = BASE_URL

\* C10, amended: for the root-only index the listing of x is one entry,
\* titled "Home", whose URL is the base path followed by one '/'.
C10_RootExample ==
  (Returned /\ RootOnly /\ Slug = <<"x">>) =>
    /\ Len(Cards) = 1
    /\ Cards[1].title = HomeTitle
    /\ Cards[1].url = BASE_URL \o <<"/">>

\* The listing of x for the root-only index
C10_Witness ==
  /\ Returned
  /\ RootOnly
  /\ Slug = <<"x">>
  /\ Len(Cards) = 1

\* The orders a dict with the items of the sequence can enumerate them in:
\* every order for a short sequence, the reversed one for a long sequence
ScanOrders(items) ==
  IF Len(items) <= MaxPages + 1
  THEN { [i \in 1..Len(items) |-> items[f[i]]] :
           f \in { g \in [1..Len(items) -> 1..Len(items)] :
                     \A i, j \in 1..Len(items) : i # j => g[i] # g[j] } }
  ELSE { [i \in 1..Len(items) |-> items[Len(items) + 1 - i]] }

\* C11: the listing returned for a category is the listing the function
\* builds for the same category from the same (path, tags) pairs enumerated
\* in any other order, also when two tagged paths get the same title.
C11_ScanOrderIndependent ==
  Returned =>
    \A items \in ScanOrders(PAGE_TAGS) :
      SortByTitle(TaggedPages(Slug, items)) = Cards

\* C12: no step changes the tag index, the category table, the special
\* cases or the static page list, and after every step the outcome of the
\* last call is what the function gives for that category on these same
\* tables: whatever was computed before, computing it again gives the same.
C12_TablesUntouched ==
  [][ /\ config' = config
      /\ outcome' # <<>> =>
           outcome'[1] = create_filter_landing_page(outcome'[1].slug)
    ]_vars

\* main has computed the page of the second category after the first one
C12_Witness ==
  /\ Returned
  /\ pc = "filters"
  /\ cat_i = 2
  /\ Slug = FILTER_CATEGORIES[2].slug
  /\ Len(Cards) = 1

\* The file main writes for the filter page of a category
FilterFile(slug) ==
  base_path \o <<"/","f","i","l","t","e","r","/">> \o slug
            \o <<"/","i","n","d","e","x",".","h","t","m","l">>

\* The files written after those of the static pages
FilterFilesWritten == SubSeq(written, Len(pages) + 1, Len(written))

\* C13: main never stops on a raised error; while it is in its second loop
\* the categories handled are at most those of the table, so that the next
\* iteration or the summary can be taken, and the counter is their number;
\* when main is done the counter is the number of categories and the filter
\* files written are one per category of the table, in its order, and no
\* other.
C13_MainCompletes ==
  /\ pc \in {"idle", "filters", "done"}
  /\ pc = "filters" =>
       /\ cat_i <= Len(FILTER_CATEGORIES)
       /\ filter_pages_count = cat_i
  /\ pc = "done" =>
       /\ filter_pages_count = Len(FILTER_CATEGORIES)
       /\ FilterFilesWritten =
            [i \in 1..Len(FILTER_CATEGORIES) |-> FilterFile(FILTER_CATEGORIES[i].slug)]

\* main is done with the five shipped categories
C13_Witness ==
  /\ pc = "done"
  /\ FILTER_CATEGORIES = ShippedFilterCategories
  /\ filter_pages_count = 5
  /\ Len(written) = Len(ShippedPagePaths) + 5

\* The tables are the shipped ones
Shipped == PAGE_TAGS = ShippedPageTags /\ FILTER_CATEGORIES = ShippedFilterCategories

RECURSIVE SumLen(_)
SumLen(seqs) == IF seqs = <<>> THEN 0 ELSE Len(Head(seqs)) + SumLen(Tail(seqs))

\* C14: with the shipped tables every tag of every path is a category of the
\* table, and when main is done the filter pages it has written hold as
\* many entries as PAGE_TAGS has (path, tag) pairs, and every path of
\* PAGE_TAGS is linked from at least one of them.
C14_NoTagDropped ==
  Shipped =>
    /\ \A i \in 1..Len(PAGE_TAGS) : TagSet(PAGE_TAGS[i].tags) \subseteq CategorySlugs
    /\ pc = "done" =>
         /\ SumLen(filter_html) =
              SumLen([i \in 1..Len(PAGE_TAGS) |-> PAGE_TAGS[i].tags])
         /\ \A i \in 1..Len(PAGE_TAGS) :
              \E n \in 1..Len(filter_html) : \E k \in 1..Len(filter_html[n]) :
                filter_html[n][k].url = BASE_URL \o PAGE_TAGS[i].path

\* main is done with the shipped tables and has written five listings
C14_Witness ==
  /\ Shipped
  /\ pc = "done"
  /\ Len(filter_html) = 5
  /\ SumLen(filter_html) > Len(PAGE_TAGS)

IndexHtml == <<"i","n","d","e","x",".","h","t","m","l">>

\* The file a URL under BASE_URL is served from: the site is generated into
\* base_path, which ends with BASE_URL, and a directory URL is its index.html
FileOfUrl(url) ==
  base_path \o SubSeq(url, Len(BASE_URL) + 1, Len(url)) \o IndexHtml

\* C15: with the shipped tables the static page list has, for every path P
\* of PAGE_TAGS, an entry whose path is P without its leading '/' followed
\* by 'index.html'; and once main has written the static pages, every URL
\* of every filter page it writes is the URL of a file it has written.
C15_LinksResolve ==
  (Shipped /\ pages = ShippedPagePaths) =>
    /\ \A i \in 1..Len(PAGE_TAGS) :
         /\ Head(PAGE_TAGS[i].path) = "/"
         /\ \E n \in 1..Len(pages) : pages[n] = Tail(PAGE_TAGS[i].path) \o IndexHtml
    /\ \A n \in 1..Len(filter_html) : \A k \in 1..Len(filter_html[n]) :
         /\ SubSeq(filter_html[n][k].url, 1, Len(BASE_URL)) = BASE_URL
         /\ \E w \in 1..Len(written) : written[w] = FileOfUrl(filter_html[n][k].url)

\* main is done with the shipped tables: 48 static pages and 5 filter pages
\* written, the root linked from a filter page
C15_Witness ==
  /\ Shipped
  /\ pages = ShippedPagePaths
  /\ pc = "done"
  /\ Len(written) = 53
  /\ \E n \in 1..Len(filter_html) : \E k \in 1..Len(filter_html[n]) :
       filter_html[n][k].url = BASE_URL \o <<"/">>

====
